---------------------------- MODULE Spec2Model ----------------------------
(***************************************************************************)
(* Model of the app-feedback monitor of discord-sentiment-bot:             *)
(*   bot/cogs/sentiment.py  SentimentAnalyzer (queue, drain, handlers)     *)
(*   bot/config.py          Config (monitored channels and products)       *)
(*   bot/analyzer.py        FeedbackAnalyzer (digest generator)            *)
(*   bot/database.py        Database (feedback store, as used by the tests)*)
(*   bot/cogs/scheduler.py  DailySummaryScheduler (fetch window, digests)  *)
(*   bot/main.py            main (validation, cogs, bot.run)               *)
(*                                                                         *)
(* Texts are sequences of one-character strings.  Message ids are the      *)
(* arrival numbers 1, 2, ... of the messages delivered to on_message, so a *)
(* smaller id is an older message.                                         *)
(*                                                                         *)
(* Scaling.  deque(maxlen=500), batch[:20] and content[:1000] are modelled *)
(* by QueueMaxLen, ApiErrorRequeue and ContentMax, which keep the order    *)
(* ApiErrorRequeue < QueueMaxLen of the source (20 < 500) but are small    *)
(* enough to enumerate; every formula below is stated in terms of these    *)
(* names and not of their values.                                          *)
(***************************************************************************)
EXTENDS Integers, Sequences, FiniteSets, TLC

\* ------------------------------------------------------------------ bounds
QueueMaxLen == 3        \* stands for deque(maxlen=500), sentiment.py:48
ApiErrorRequeue == 2    \* stands for batch[:20], sentiment.py:224
ContentMax == 6         \* stands for message.content[:1000], sentiment.py:95
MaxMsgs == 4            \* messages delivered to on_message in one run
MaxCaptureMsgs == 4     \* messages delivered in the capture specification
JitterSteps == 2        \* random.uniform(0, 1) is drawn from k / JitterSteps
SummaryMax == 3         \* stands for msg["content"][:100], sentiment.py:173
MaxWords == 3           \* words in a text given to the mention detector
MaxInserts == 3         \* calls of insert_feedback_record in the store runs
MaxTime == 2            \* message timestamps and query bounds are 0..MaxTime
MaxDigestMsgs == 3      \* messages in a list given to the digest generator
MaxPosts == 2           \* messages posted in the monitored channels
MaxRuns == 2            \* invocations of the digest handlers that fetch
MaxSkips == 1           \* firings of the daily timer that return early
MaxSets == 2            \* set-destination operations
Lookback == 1           \* stands for timedelta(hours=24), scheduler.py:32
HistoryLimit == 1       \* stands for history(limit=500), scheduler.py:39
MaxRecordMsgs == 2      \* messages delivered in the records specification
HourLen == 2            \* clock ticks in an hour
DayHours == 4           \* stands for the 24 hours of a day
SummaryHour == 2        \* stands for Config.SUMMARY_HOUR = 8, config.py:17

\* --------------------------------------------------------------- constants
MaxRetries == 3         \* self._max_retries

\* ------------------------------------------------------------------- texts
Min(a, b) == IF a <= b THEN a ELSE b

Take(s, n) == SubSeq(s, 1, Min(n, Len(s)))

Last(s) == s[Len(s)]

Front(s) == SubSeq(s, 1, Len(s) - 1)

Reverse(s) == [i \in 1..Len(s) |-> s[Len(s) + 1 - i]]

Range(s) == {s[i] : i \in 1..Len(s)}

UpperCase == <<"A","B","C","D","E","F","G","H","I","J","K","L","M",
               "N","O","P","Q","R","S","T","U","V","W","X","Y","Z">>

LowerCase == <<"a","b","c","d","e","f","g","h","i","j","k","l","m",
               "n","o","p","q","r","s","t","u","v","w","x","y","z">>

\* str.lower() on one character
LowerChar(c) ==
    IF \E i \in 1..Len(UpperCase) : UpperCase[i] = c
    THEN LowerCase[CHOOSE i \in 1..Len(UpperCase) : UpperCase[i] = c]
    ELSE c

\* str.lower()
Lower(text) == [i \in 1..Len(text) |-> LowerChar(text[i])]

IsSpace(c) == c \in {" ", "\t", "\n"}

RECURSIVE LStrip(_)
LStrip(s) == IF s = <<>> THEN s
             ELSE IF IsSpace(Head(s)) THEN LStrip(Tail(s)) ELSE s

RECURSIVE RStrip(_)
RStrip(s) == IF s = <<>> THEN s
             ELSE IF IsSpace(Last(s)) THEN RStrip(Front(s)) ELSE s

\* str.strip()
Strip(s) == RStrip(LStrip(s))

\* Python's `pat in text`
IsSubstring(pat, text) ==
    \E i \in 1..(Len(text) - Len(pat) + 1) :
        SubSeq(text, i, i + Len(pat) - 1) = pat

\* ------------------------------------------------------------------ Config
MONITORED_APPS ==
    << <<"c","o","r","a">>,
       <<"s","p","i","r","a","l">>,
       <<"s","p","a","r","k","l","e">>,
       <<"m","o","n","o","l","o","g","u","e">> >>

MONITORED_CHANNEL_IDS ==
    { "1019678288618205294", "821856844137758730", "797477569195671592",
      "1389667062569242644", "1395804083801165895", "1393267393928630473",
      "1395804228336750672", "1395804148825329777", "1466104194644836620" }

mentions_case_sensitive(text) ==
    SelectSeq(MONITORED_APPS, LAMBDA app : IsSubstring(app, text))

\* Config.mentions_monitored_app: the configured products that occur in the
\* text as a case-insensitive substring, in configured order.
mentions_monitored_app(text) ==
    SelectSeq(MONITORED_APPS, LAMBDA app : IsSubstring(app, Lower(text)))

\* ---------------------------------------------------------------- messages
None == "None"

T_empty == <<>>
T_blank == <<" ", "\n">>
T_plain == <<"h","i">>
T_cora == <<"C","o","r","a","!">>
T_upper == <<" ","C","O","R","A">>
T_long == <<"s","p","i","r","a","l"," ","S","p","a","r","k","l","e">>

Texts == {T_empty, T_blank, T_plain, T_cora, T_upper, T_long}

UnmonitoredChannel == "999999999"

MonitoredChannel == "1019678288618205294"

\* The messages the chat platform may deliver, but for the id.
MessageShapes ==
    [author_bot : BOOLEAN, guild : {None, "123456789"},
     channel_id : {MonitoredChannel, UnmonitoredChannel}, content : Texts]

\* The messages delivered in the pipeline specifications: user messages in a
\* monitored channel that mention a product.
FeedbackShapes ==
    {s \in MessageShapes :
        /\ ~s.author_bot /\ s.guild # None
        /\ s.channel_id = MonitoredChannel /\ s.content = T_cora}

\* The messages delivered in the records specification: user messages in a
\* monitored channel, with and without a product mention, shorter and longer
\* than ContentMax.
RecordShapes ==
    {s \in MessageShapes :
        /\ ~s.author_bot /\ s.guild # None
        /\ s.channel_id = MonitoredChannel
        /\ s.content \in {T_plain, T_cora, T_long}}

NoMessage ==
    [id |-> 0, author_bot |-> FALSE, guild |-> None, channel_id |-> "",
     content |-> <<>>]

Message(id, shape) ==
    [id |-> id, author_bot |-> shape.author_bot, guild |-> shape.guild,
     channel_id |-> shape.channel_id, content |-> shape.content]

QueueItemWholeContent(m) ==
    [message_id |-> m.id, channel_id |-> m.channel_id,
     content |-> m.content,
     apps_mentioned |-> mentions_monitored_app(m.content)]

\* The dict on_message appends (the context fields guild_id, channel_name,
\* author_id, author_name, timestamp and jump_url are copied from the message
\* unchanged and are represented by message_id).
QueueItem(m) ==
    [message_id |-> m.id, channel_id |-> m.channel_id,
     content |-> Take(m.content, ContentMax),
     apps_mentioned |-> mentions_monitored_app(m.content)]

\* on_message's chain of early returns: the place where it leaves.
OnMessageNoMentionCheck(m) ==
    IF m.author_bot THEN "bot"
    ELSE IF m.guild = None THEN "dm"
    ELSE IF m.content = <<>> \/ Strip(m.content) = <<>> THEN "empty"
    ELSE IF m.channel_id \notin MONITORED_CHANNEL_IDS THEN "unmonitored"
    ELSE "queued"

OnMessageNoBotCheck(m) ==
    IF m.guild = None THEN "dm"
    ELSE IF m.content = <<>> \/ Strip(m.content) = <<>> THEN "empty"
    ELSE IF m.channel_id \notin MONITORED_CHANNEL_IDS THEN "unmonitored"
    ELSE IF mentions_monitored_app(m.content) = <<>> THEN "no_mention"
    ELSE "queued"

OnMessageExit(m) ==
    IF m.author_bot THEN "bot"
    ELSE IF m.guild = None THEN "dm"
    ELSE IF m.content = <<>> \/ Strip(m.content) = <<>> THEN "empty"
    ELSE IF m.channel_id \notin MONITORED_CHANNEL_IDS THEN "unmonitored"
    ELSE IF mentions_monitored_app(m.content) = <<>> THEN "no_mention"
    ELSE "queued"

\* ------------------------------------------------------------------- deque
\* collections.deque(maxlen=QueueMaxLen): an insertion into a full deque
\* discards one item from the opposite end.
DequeAppendEvictsBack(q, x) ==
    IF Len(q) < QueueMaxLen THEN Append(q, x) ELSE Append(Front(q), x)

DequeAppend(q, x) ==
    IF Len(q) < QueueMaxLen THEN Append(q, x) ELSE Append(Tail(q), x)

DequeAppendLeftUnbounded(q, x) == <<x>> \o q

DequeAppendLeft(q, x) ==
    IF Len(q) < QueueMaxLen THEN <<x>> \o q ELSE <<x>> \o Front(q)

\* --------------------------------------------------------------- classifier
\* What self.client.messages.create does for one item: it raises, or returns
\* a reply text.  A reply is held by what json.loads and the brace search
\* make of it:
\*   "json"        valid JSON, an object (its keys: has, its values: data)
\*   "json_other"  valid JSON, not an object
\*   "brace_json"  not valid JSON; the first {...} substring is a JSON object
\*   "brace_bad"   not valid JSON; the first {...} substring is not JSON
\*   "text"        not valid JSON and no {...} substring
Keys == {"sentiment", "feedback_type", "summary", "actionable"}

NoData ==
    [sentiment |-> "", feedback_type |-> "", summary |-> <<>>,
     actionable |-> FALSE]

ApiRaise(exc) == [kind |-> exc, has |-> {}, data |-> NoData]

R_bug ==
    [kind |-> "json", has |-> Keys,
     data |-> [sentiment |-> "negative", feedback_type |-> "bug",
               summary |-> <<"s">>, actionable |-> TRUE]]

R_text == [kind |-> "text", has |-> {}, data |-> NoData]

\* json.loads succeeds, but on a list: data.get raises AttributeError
R_list == [kind |-> "json_other", has |-> {}, data |-> NoData]

\* prose around a JSON object that has no summary and no actionable key
R_brace ==
    [kind |-> "brace_json", has |-> {"sentiment", "feedback_type"},
     data |-> [sentiment |-> "positive", feedback_type |-> "praise",
               summary |-> <<>>, actionable |-> FALSE]]

\* prose around braces that do not hold JSON, as in "Sure! {negative}"
R_brace_bad == [kind |-> "brace_bad", has |-> {}, data |-> NoData]

\* a JSON object whose values are not among those the prompt asks for
R_odd ==
    [kind |-> "json", has |-> Keys,
     data |-> [sentiment |-> "angry", feedback_type |-> "rant",
               summary |-> <<"s">>, actionable |-> TRUE]]

Exceptions == {"RateLimitError", "APIError", "Exception"}

\* The outcomes of the client call drawn in the pipeline specifications.
PipelineResults == {R_bug, R_text, ApiRaise("RateLimitError")}

\* The outcomes of the client call drawn in the records specification.
RecordResults ==
    {R_bug, R_text, R_list, R_brace, R_brace_bad, R_odd, ApiRaise("APIError")}

\* dict.get(key, default)
Get(r, key, default) == IF key \in r.has THEN r.data[key] ELSE default

RECURSIVE Join(_, _)
\* sep.join(parts)
Join(parts, sep) ==
    IF parts = <<>> THEN <<>>
    ELSE IF Len(parts) = 1 THEN Head(parts)
    ELSE Head(parts) \o sep \o Join(Tail(parts), sep)

\* The parsing of a reply raises inside the per-item try: json.loads of the
\* brace substring at line 166, or data.get on a non-object at line 186.
ParseRaises(r) == r.kind \in {"json_other", "brace_bad"}

ParseReplyWholeSummary(msg, r) ==
    IF r.kind = "text"
    THEN [kind |-> "text", has |-> Keys,
          data |-> [sentiment |-> "neutral", feedback_type |-> "general",
                    summary |-> msg.content, actionable |-> FALSE]]
    ELSE r

\* The data parsed from a reply that does not raise (lines 159-175).
ParseReply(msg, r) ==
    IF r.kind = "text"
    THEN [kind |-> "text", has |-> Keys,
          data |-> [sentiment |-> "neutral", feedback_type |-> "general",
                    summary |-> Take(msg.content, SummaryMax),
                    actionable |-> FALSE]]
    ELSE r

FeedbackRecord(msg, data) ==
    [message_id |-> msg.message_id, channel_id |-> msg.channel_id,
     content |-> msg.content,
     apps_mentioned |-> Join(msg.apps_mentioned, <<",">>),
     sentiment |-> Get(data, "sentiment", "neutral"),
     feedback_type |-> Get(data, "feedback_type", "general"),
     summary |-> Get(data, "summary", <<>>),
     actionable |-> Get(data, "actionable", FALSE)]

ClassifyOneDefaultOnError(msg, r) ==
    IF r.kind \in Exceptions \/ ParseRaises(r)
    THEN <<FeedbackRecord(msg, ParseReply(msg, R_text))>>
    ELSE <<FeedbackRecord(msg, ParseReply(msg, r))>>

\* One turn of _analyze_batch's loop: the records it adds to results.  Every
\* exception of the turn is caught by `except Exception` and the item skipped.
ClassifyOne(msg, r) ==
    IF r.kind \in Exceptions THEN <<>>
    ELSE IF ParseRaises(r) THEN <<>>
    ELSE <<FeedbackRecord(msg, ParseReply(msg, r))>>

\* ------------------------------------------------------------------- state
VARIABLES
    message_queue,  \* self.message_queue
    retry_count,    \* self._retry_count
    pc,             \* where batch_processor is: "idle", "classifying",
                    \* "awaiting" (a stubbed _analyze_batch), "storing"
    batch,          \* batch_processor's batch
    results,        \* the records _analyze_batch returned
    idx,            \* the item being classified, or the record being stored
    db_calls,       \* the calls of db.insert_feedback_record: [rec, ok]
    wait_time,      \* the last backoff sleep, in 1/JitterSteps time units
    nmsgs,          \* messages delivered to on_message so far
    last_msg,       \* the message of the last step, if it was on_message
                    \* (NoMessage otherwise)
    drain,          \* what the current or just-finished drain did: the queue
                    \* (batch0), retry counter (retry0) and number of insert
                    \* calls (ndb0) it started from, how each client call
                    \* ended (outs), the messages queued meanwhile (arrived),
                    \* the exception batch_processor caught (exc), the queue
                    \* before its handler or its return (qpre)
    evs,            \* the evictions of the last step
    detect,         \* a call of Config.mentions_monitored_app: its text, its
                    \* result, and whether it has returned (done)
    store,          \* the rows of the feedback table, in row order
    latest,         \* per message_id, the record of the last insert call
                    \* made for it (apps: the list its apps_mentioned string
                    \* was joined from)
    ninserts,       \* insert calls made on the store so far
    answer,         \* the result of the last step, if it was a query
    digest,         \* a call of FeedbackAnalyzer.analyze_batch: its messages,
                    \* the lines of the prompt it built (prompt, by message
                    \* id), the calls of the model it made (calls), what it
                    \* returned (ret), and whether it has returned (done)
    sched,          \* the DailySummaryScheduler cog and its surroundings: its
                    \* fields summary_channel_id and last_run, the clock
                    \* (now), the messages posted in the monitored channels
                    \* (history), the locals of the running handlers (runs),
                    \* the digests handed to send (sent), the set-destination
                    \* operations made (sets), the handler invocations made
                    \* (nruns), the ids of the messages fetched (collected),
                    \* the failed turns of the last fetch that ended
                    \* (lastbad), the timer of schedule_daily (timer), the
                    \* last firing that returned early (skipped) and how
                    \* many did (nskips)
    boot            \* the process start: the environment, where main() is
                    \* (pc), and what it has done

vars == <<message_queue, retry_count, pc, batch, results, idx, db_calls,
          wait_time, nmsgs, last_msg, drain, evs, detect, store, latest,
          ninserts, answer, digest, sched, boot>>

\* The state of the SentimentAnalyzer cog.
cog == <<message_queue, retry_count, pc, batch, results, idx, db_calls,
         wait_time, nmsgs, last_msg, drain, evs>>

\* The state outside the SentimentAnalyzer cog.
noncog == <<detect, store, latest, ninserts, answer, digest, sched, boot>>

NoDigest ==
    [messages |-> <<>>, prompt |-> <<>>, calls |-> 0, ret |-> "",
     done |-> FALSE]

NoDetect == [text |-> <<>>, result |-> <<>>, done |-> FALSE]

NoDrain ==
    [batch0 |-> <<>>, retry0 |-> 0, path |-> "none", outs |-> <<>>,
     ndb0 |-> 0, arrived |-> 0, qpre |-> <<>>, exc |-> "none",
     done |-> FALSE]

InitCog ==
    /\ message_queue = <<>>
    /\ retry_count = 0
    /\ pc = "idle"
    /\ batch = <<>>
    /\ results = <<>>
    /\ idx = 0
    /\ db_calls = <<>>
    /\ wait_time = 0
    /\ nmsgs = 0
    /\ last_msg = NoMessage
    /\ drain = NoDrain
    /\ evs = <<>>

\* ------------------------------------------------------- persistence layer
StoreIds == {1, 2}

\* What the tests' records differ in besides id, products and timestamp
\* (test_feedback_record_upsert).
Variants ==
    { [content |-> <<"O","r","i","g">>, sentiment |-> "neutral"],
      [content |-> <<"U","p","d">>, sentiment |-> "negative"] }

AppLists ==
    { << <<"c","o","r","a">> >>, << <<"s","p","i","r","a","l">> >>,
      << <<"c","o","r","a">>, <<"s","p","i","r","a","l">> >> }

NoRecord ==
    [present |-> FALSE, message_id |-> 0, content |-> <<>>,
     sentiment |-> "", apps |-> <<>>, message_timestamp |-> 0]

NoAnswer ==
    [op |-> "none", since |-> 0, rows |-> <<>>, total |-> 0,
     by_app |-> [a \in {} |-> 0]]

InitStore ==
    /\ store = <<>>
    /\ latest = [id \in StoreIds |-> NoRecord]
    /\ ninserts = 0
    /\ answer = NoAnswer

\* ---------------------------------------------------- scheduler cog state
\* self.last_run = None
NoTime == -1

\* self.summary_channel_id at construction
DefaultSummaryChannel == "1467997889987874980"

\* The handlers that run generate_summary: the daily timer and /summary.
Slots == {"daily", "cmd"}

\* A handler that is not running.
NoRun ==
    [pc |-> "idle", cutoff |-> 0, ci |-> 0, messages |-> <<>>, to |-> "",
     nsets0 |-> 0, t0 |-> 0, n0 |-> 0, bad |-> {}]

\* The timer of schedule_daily before its before_loop hook has run: the
\* instant the bot is ready (start), the instant the zone's offset from UTC
\* changes (change) and by how much (shift), the locals of the hook, and the
\* instants at which the loop has called schedule_daily (fired).
NoTimer ==
    [pc |-> "created", start |-> 0, change |-> 0, shift |-> 0, now |-> 0,
     target |-> 0, wait_seconds |-> 0, fired |-> <<>>]

\* No firing of the timer has returned early: whether one has (any), the
\* non-bot messages that were in its window (ids), last_run at that moment,
\* and whether a handler has started a fetch since (started).
NoSkip == [any |-> FALSE, ids |-> {}, last_run |-> NoTime, started |-> FALSE]

\* The cog when __init__ returns.
SchedAtConstruction ==
    [summary_channel_id |-> DefaultSummaryChannel,
     last_run |-> NoTime, now |-> 0, history |-> <<>>,
     runs |-> [s \in Slots |-> NoRun], sent |-> <<>>, sets |-> <<>>,
     nruns |-> 0, collected |-> {}, lastbad |-> {}, timer |-> NoTimer,
     skipped |-> NoSkip, nskips |-> 0]

InitSched == sched = SchedAtConstruction

\* An environment variable that is not set.
Unset == "<unset>"

\* The process before bot.main is imported: the environment it is started
\* in, the attributes of Config, where it stands, what validate reported, the
\* cogs added, the timers started, whether bot.run was entered.
NoBoot ==
    [env |-> [DISCORD_BOT_TOKEN |-> Unset, ANTHROPIC_API_KEY |-> Unset,
              LOG_LEVEL |-> Unset],
     Config |-> [DISCORD_TOKEN |-> "", ANTHROPIC_API_KEY |-> "",
                 LOG_LEVEL |-> ""],
     pc |-> "off", errors |-> <<>>, cogs |-> {}, timers |-> {},
     bot_running |-> FALSE]

\* Everything but the cog, the detector call, the store and the digest call.
InitRest ==
    /\ InitSched
    /\ boot = NoBoot

Init ==
    /\ InitCog
    /\ detect = NoDetect
    /\ InitStore
    /\ digest = NoDigest
    /\ InitRest

\* The eviction an insertion made, read off the deque before and after.
EvictionOf(side, q, q2) ==
    IF Range(q) \subseteq Range(q2) THEN <<>>
    ELSE <<[by |-> side, item |-> CHOOSE e \in Range(q) \ Range(q2) : TRUE,
            before |-> q]>>

\* -------------------------------------------------------------- on_message
\* on_message(message); `suspended` are the places where batch_processor
\* has yielded to the event loop.
OnMessage(shape, suspended, limit) ==
    LET m == Message(nmsgs + 1, shape)
        queued == OnMessageExit(m) = "queued"
        q2 == IF queued THEN DequeAppend(message_queue, QueueItem(m))
              ELSE message_queue
    IN  /\ pc \in suspended
        /\ nmsgs < limit
        /\ nmsgs' = nmsgs + 1
        /\ last_msg' = m
        /\ message_queue' = q2
        /\ evs' = IF queued THEN EvictionOf("append", message_queue, q2)
                  ELSE <<>>
        /\ drain' = IF pc = "idle" THEN NoDrain
                    ELSE [drain EXCEPT !.arrived = @ + (IF queued THEN 1 ELSE 0)]
        /\ UNCHANGED <<retry_count, pc, batch, results, idx, db_calls,
                       wait_time>>
        /\ UNCHANGED noncog

\* --------------------------------------------------------- batch_processor
PopAllNoClear(q, acc) == [batch |-> acc \o q, rest |-> q]

PopAllPeeksHead(q, acc) == [batch |-> acc \o q, rest |-> Take(q, 1)]

RECURSIVE PopAll(_, _)
\* while self.message_queue: batch.append(self.message_queue.popleft())
PopAll(q, acc) ==
    IF q = <<>> THEN [batch |-> acc, rest |-> q]
    ELSE PopAll(Tail(q), Append(acc, Head(q)))

RECURSIVE AppendLeftAll(_, _, _)
\* for msg in xs: self.message_queue.appendleft(msg)
AppendLeftAll(q, xs, evicted) ==
    IF xs = <<>> THEN [q |-> q, evs |-> evicted]
    ELSE LET q2 == DequeAppendLeft(q, Head(xs))
         IN  AppendLeftAll(q2, Tail(xs),
                           evicted \o EvictionOf("appendleft", q, q2))

RequeueNotReversed(q, b) == AppendLeftAll(q, b, <<>>)

RequeueAtBack(q, b) == [q |-> Take(q \o b, QueueMaxLen), evs |-> <<>>]

\* for msg in reversed(b): self.message_queue.appendleft(msg)
Requeue(q, b) == AppendLeftAll(q, Reverse(b), <<>>)

RateLimitRequeuesBelowCeiling(rc) == rc < MaxRetries

\* if self._retry_count <= self._max_retries
RateLimitRequeues(rc) == rc <= MaxRetries

RECURSIVE Pow2(_)
Pow2(n) == IF n <= 0 THEN 1 ELSE 2 * Pow2(n - 1)

BackoffWaitBeforeIncrement(rc, j) == Pow2(rc - 1) * JitterSteps + j

\* (2 ** self._retry_count) + random.uniform(0, 1), in 1/JitterSteps units,
\* the jitter being j / JitterSteps
BackoffWait(rc, j) == Pow2(rc) * JitterSteps + j

\* _handle_rate_limit(batch), the jitter drawn being j / JitterSteps
HandleRateLimit(q, retry, b, j) ==
    LET rc == retry + 1
    IN  IF RateLimitRequeues(rc)
        THEN [q |-> Requeue(q, b).q, evs |-> Requeue(q, b).evs,
              retry |-> rc, wait |-> BackoffWait(rc, j)]
        ELSE [q |-> q, evs |-> <<>>, retry |-> 0, wait |-> 0]

ApiErrorSliceWhole(b) == b

\* batch[:20]
ApiErrorSlice(b) == Take(b, ApiErrorRequeue)

\* _handle_api_error(batch)
HandleApiError(q, retry, b) ==
    [q |-> Requeue(q, ApiErrorSlice(b)).q,
     evs |-> Requeue(q, ApiErrorSlice(b)).evs,
     retry |-> retry, wait |-> 0]

\* batch_processor returns: its locals are gone.
Return(d) ==
    /\ pc' = "idle"
    /\ batch' = <<>>
    /\ results' = <<>>
    /\ idx' = 0
    /\ drain' = [d EXCEPT !.done = TRUE]

\* The timer fires: the early return on an empty queue, or the drain of the
\* whole queue into batch and the call of _analyze_batch.  path = "real" runs
\* _analyze_batch as written; path = "stub" has a test double in its place.
BatchStart(path) ==
    /\ pc = "idle"
    /\ UNCHANGED noncog
    /\ last_msg' = NoMessage
    /\ evs' = <<>>
    /\ IF message_queue = <<>>
       THEN /\ drain' = NoDrain
            /\ UNCHANGED <<message_queue, retry_count, pc, batch, results,
                           idx, db_calls, wait_time, nmsgs>>
       ELSE /\ batch' = PopAll(message_queue, <<>>).batch
            /\ message_queue' = PopAll(message_queue, <<>>).rest
            /\ pc' = IF path = "real" THEN "classifying" ELSE "awaiting"
            /\ idx' = 1
            /\ results' = <<>>
            /\ drain' = [NoDrain EXCEPT !.batch0 = message_queue,
                                        !.retry0 = retry_count,
                                        !.ndb0 = Len(db_calls),
                                        !.path = path]
            /\ UNCHANGED <<retry_count, db_calls, wait_time, nmsgs>>

\* One turn of _analyze_batch's loop, the client call ending as r.  The call
\* is synchronous: the loop never yields, so no message arrives meanwhile.
\* After the last turn _analyze_batch returns (it cannot raise) and
\* _store_results starts; with no record to store, batch_processor runs on
\* to self._retry_count = 0 and returns.
ClassifyItem(r) ==
    /\ pc = "classifying"
    /\ last_msg' = NoMessage
    /\ evs' = <<>>
    /\ LET res == results \o ClassifyOne(batch[idx], r)
           d == [drain EXCEPT !.outs = Append(@, r.kind)]
       IN  IF idx < Len(batch)
           THEN /\ results' = res
                /\ idx' = idx + 1
                /\ drain' = d
                /\ UNCHANGED <<pc, batch, retry_count, wait_time>>
           ELSE IF res = <<>>
           THEN /\ retry_count' = 0
                /\ wait_time' = 0
                /\ Return([d EXCEPT !.qpre = message_queue])
           ELSE /\ pc' = "storing"
                /\ results' = res
                /\ idx' = 1
                /\ drain' = d
                /\ UNCHANGED <<batch, retry_count, wait_time>>
    /\ UNCHANGED <<message_queue, db_calls, nmsgs>>
    /\ UNCHANGED noncog

NextStoreAbortOnFailure(i, ok, n) == IF ok THEN i + 1 ELSE n + 1

NextStoreRetryOnFailure(i, ok, n) == IF ok THEN i + 1 ELSE i

\* _store_results' loop goes on to the next record, stored or not.
NextStore(i, ok, n) == i + 1

\* The awaited db.insert_feedback_record(record) ends, stored (ok) or
\* raising (caught and logged); after the last record batch_processor resets
\* the retry counter and returns.
StoreRecord(ok) ==
    /\ pc = "storing"
    /\ last_msg' = NoMessage
    /\ evs' = <<>>
    /\ LET call == [rec |-> results[idx], ok |-> ok]
           next == NextStore(idx, ok, Len(results))
       IN  /\ db_calls' = Append(db_calls, call)
           /\ IF next <= Len(results)
              THEN /\ idx' = next
                   /\ drain' = drain
                   /\ UNCHANGED <<pc, batch, results, retry_count, wait_time>>
              ELSE /\ retry_count' = 0
                   /\ wait_time' = 0
                   /\ Return([drain EXCEPT !.qpre = message_queue])
    /\ UNCHANGED <<message_queue, nmsgs>>
    /\ UNCHANGED noncog

\* The except clauses of batch_processor, entered when the awaited
\* _analyze_batch raises exc.
StubRaises(exc, j) ==
    /\ pc = "awaiting"
    /\ exc = "RateLimitError" \/ j = 0
    /\ last_msg' = NoMessage
    /\ LET h == CASE exc = "RateLimitError" ->
                       HandleRateLimit(message_queue, retry_count, batch, j)
                  [] exc = "APIError" ->
                       HandleApiError(message_queue, retry_count, batch)
                  [] OTHER ->
                       [q |-> message_queue, evs |-> <<>>,
                        retry |-> retry_count, wait |-> 0]
       IN  /\ message_queue' = h.q
           /\ evs' = h.evs
           /\ retry_count' = h.retry
           /\ wait_time' = IF exc = "RateLimitError" THEN h.wait ELSE wait_time
           /\ Return([drain EXCEPT !.exc = exc, !.qpre = message_queue])
    /\ UNCHANGED <<db_calls, nmsgs>>
    /\ UNCHANGED noncog

\* ---------------------------------------------------------- specifications
\* The cog as written: messages arrive while batch_processor is idle or
\* awaits the database.
Next ==
    \/ \E s \in FeedbackShapes : OnMessage(s, {"idle", "storing"}, MaxMsgs)
    \/ BatchStart("real")
    \/ \E r \in PipelineResults : ClassifyItem(r)
    \/ \E ok \in BOOLEAN : StoreRecord(ok)

Spec == Init /\ [][Next]_vars

\* The cog with _analyze_batch as written or replaced by a test double that
\* awaits and then raises: the only way into batch_processor's handlers.
NextStub ==
    \/ \E s \in FeedbackShapes :
          OnMessage(s, {"idle", "storing", "awaiting"}, MaxMsgs)
    \/ \E path \in {"real", "stub"} : BatchStart(path)
    \/ \E r \in PipelineResults : ClassifyItem(r)
    \/ \E ok \in BOOLEAN : StoreRecord(ok)
    \/ \E exc \in Exceptions, j \in 0..JitterSteps : StubRaises(exc, j)

SpecStub == Init /\ [][NextStub]_vars

\* on_message alone, over every shape of message.
NextCapture ==
    \E s \in MessageShapes : OnMessage(s, {"idle"}, MaxCaptureMsgs)

SpecCapture == Init /\ [][NextCapture]_vars

\* The cog as written, over messages with and without a mention and over
\* every kind of reply of the model.
NextRecords ==
    \/ \E s \in RecordShapes :
          OnMessage(s, {"idle", "storing"}, MaxRecordMsgs)
    \/ BatchStart("real")
    \/ \E r \in RecordResults : ClassifyItem(r)
    \/ \E ok \in BOOLEAN : StoreRecord(ok)

SpecRecords == Init /\ [][NextRecords]_vars

\* ---------------------------------------------------------- mention detector
\* The pieces the texts given to the detector are made of: product names in
\* several cases, a product name split in two ("cor", "a"), other words.
Words ==
    { <<"C","o","r","a">>, <<"C","O","R","A"," ">>,
      <<"s","p","i","R","A","L">>, <<"s","p","a","r","k","l","e">>,
      <<"M","o","n","o","l","o","g","u","e">>, <<"h","i"," ">>,
      <<"c","o","r">>, <<"a">> }

RECURSIVE Flatten(_)
Flatten(ws) == IF ws = <<>> THEN <<>> ELSE Head(ws) \o Flatten(Tail(ws))

DetectTexts ==
    {Flatten(ws) : ws \in UNION {[1..n -> Words] : n \in 0..MaxWords}}

InitDetect ==
    /\ InitCog
    /\ InitStore
    /\ digest = NoDigest
    /\ InitRest
    /\ detect \in [text : DetectTexts, result : {<<>>}, done : {FALSE}]

\* Config.mentions_monitored_app(text) is called and returns.
Detect ==
    /\ ~detect.done
    /\ detect' = [detect EXCEPT !.result = mentions_monitored_app(detect.text),
                                !.done = TRUE]
    /\ UNCHANGED <<cog, store, latest, ninserts, answer, digest, sched, boot>>

NextDetect == Detect

SpecDetect == InitDetect /\ [][NextDetect]_vars

\* ------------------------------------------------------------ feedback store
RECURSIVE SplitAt(_, _, _)
\* str.split(","), a character at a time: cur is the piece being read, acc
\* the pieces read
SplitAt(s, cur, acc) ==
    IF s = <<>> THEN Append(acc, cur)
    ELSE IF Head(s) = "," THEN SplitAt(Tail(s), <<>>, Append(acc, cur))
    ELSE SplitAt(Tail(s), Append(cur, Head(s)), acc)

Split(s) == SplitAt(s, <<>>, <<>>)

\* The FeedbackRecord a caller passes to the store (sentiment.py:177-192,
\* test_database.py:54-69).
StoreRecordOf(id, v, apps, ts) ==
    [message_id |-> id, content |-> v.content, sentiment |-> v.sentiment,
     apps_mentioned |-> Join(apps, <<",">>), message_timestamp |-> ts]

InsertAppend(rows, rec) == Append(rows, rec)

\* Database.insert_feedback_record: message_id is unique, and an insert whose
\* message_id is present replaces that row in place.
InsertFeedbackRecord(rows, rec) ==
    IF \E i \in 1..Len(rows) : rows[i].message_id = rec.message_id
    THEN [i \in 1..Len(rows) |->
             IF rows[i].message_id = rec.message_id THEN rec ELSE rows[i]]
    ELSE Append(rows, rec)

GetFeedbackAfter(rows, t) ==
    SelectSeq(rows, LAMBDA r : r.message_timestamp > t)

\* Database.get_feedback_since(start_time)
GetFeedbackSince(rows, t) ==
    SelectSeq(rows, LAMBDA r : r.message_timestamp >= t)

CountFirstApp(rows, app) ==
    Len(SelectSeq(rows, LAMBDA r : app = Head(Split(r.apps_mentioned))))

\* The rows counted under a product in the by_app statistics.
CountApp(rows, app) ==
    Len(SelectSeq(rows, LAMBDA r : app \in Range(Split(r.apps_mentioned))))

\* Database.get_feedback_stats(start_time): total and by_app
GetFeedbackStats(rows, t) ==
    LET w == GetFeedbackSince(rows, t)
    IN  [total |-> Len(w),
         by_app |-> [a \in Range(MONITORED_APPS) |-> CountApp(w, a)]]

\* await db.insert_feedback_record(record)
Insert(id, v, apps, ts) ==
    /\ ninserts < MaxInserts
    /\ ninserts' = ninserts + 1
    /\ store' = InsertFeedbackRecord(store, StoreRecordOf(id, v, apps, ts))
    /\ latest' = [latest EXCEPT ![id] =
                     [present |-> TRUE, message_id |-> id,
                      content |-> v.content, sentiment |-> v.sentiment,
                      apps |-> apps, message_timestamp |-> ts]]
    /\ answer' = NoAnswer
    /\ UNCHANGED <<cog, detect, digest, sched, boot>>

\* await db.get_feedback_since(t)
QuerySince(t) ==
    /\ answer' = [NoAnswer EXCEPT !.op = "since", !.since = t,
                                  !.rows = GetFeedbackSince(store, t)]
    /\ UNCHANGED <<cog, detect, digest, store, latest, ninserts, sched, boot>>

\* await db.get_feedback_stats(t)
QueryStats(t) ==
    /\ answer' = [NoAnswer EXCEPT !.op = "stats", !.since = t,
                                  !.total = GetFeedbackStats(store, t).total,
                                  !.by_app = GetFeedbackStats(store, t).by_app]
    /\ UNCHANGED <<cog, detect, digest, store, latest, ninserts, sched, boot>>

NextStoreOps ==
    \/ \E id \in StoreIds, v \in Variants, apps \in AppLists, ts \in 0..MaxTime :
          Insert(id, v, apps, ts)
    \/ \E t \in 0..(MaxTime + 1) : QuerySince(t)
    \/ \E t \in 0..(MaxTime + 1) : QueryStats(t)

SpecStore == Init /\ [][NextStoreOps]_vars

\* ----------------------------------------------------------- digest generator
TEAM_MEMBERS ==
    { <<"n","a","v","e","e","n","_","z">>,
      <<"k","i","e","r","a","n","_","2">>,
      <<"y","a","s","h","4","9","4","9","4">>,
      <<"m","a","r","c","u","s","e","v","e","r","y">> }

\* str(msg.author) of the fetched messages: team members with and without a
\* discriminator and in other letter case, users, a user whose name starts
\* with a team member's, a user with a team member's name after the '#'.
Authors ==
    { <<"n","a","v","e","e","n","_","z">>,
      <<"N","a","v","e","e","n","_","Z","#","1","2","3","4">>,
      <<"k","i","e","r","a","n","_","2","#","0">>,
      <<"M","A","R","C","U","S","E","V","E","R","Y">>,
      <<"u","s","e","r","1">>,
      <<"n","a","v","e","e","n","_","z","z">>,
      <<"b","o","b","#","n","a","v","e","e","n","_","z">> }

WholeAuthor(a) == a

RECURSIVE BeforeHash(_)
\* author.split('#')[0]
BeforeHash(a) ==
    IF a = <<>> \/ Head(a) = "#" THEN <<>>
    ELSE <<Head(a)>> \o BeforeHash(Tail(a))

IsTeamMemberExact(author) == author \in TEAM_MEMBERS

\* msg['author'].split('#')[0].lower() in TEAM_MEMBERS
IsTeamMember(author) == Lower(BeforeHash(author)) \in TEAM_MEMBERS

NothingNew == "Nothing new found. Check back later."

OnlyTeam == "Only team member messages found. No user feedback to analyze."

\* FeedbackAnalyzer.analyze_batch(messages), the model call (if it is made)
\* ending as outcome: "reply" or "raise".
AnalyzeBatch(messages, outcome) ==
    LET filtered == SelectSeq(messages, LAMBDA m : ~IsTeamMember(m.author))
        prompt == [i \in 1..Len(filtered) |-> filtered[i].id]
    IN  IF messages = <<>>
        THEN [prompt |-> <<>>, calls |-> 0, ret |-> NothingNew]
        ELSE IF filtered = <<>>
        THEN [prompt |-> <<>>, calls |-> 0, ret |-> OnlyTeam]
        ELSE [prompt |-> prompt, calls |-> 1,
              ret |-> IF outcome = "reply" THEN "response.content[0].text"
                      ELSE "Error: str(e)"]

\* The lists of fetched messages given to analyze_batch; a message's id is its
\* place in the fetch order.
DigestInputs ==
    UNION { {[i \in 1..n |-> [id |-> i, author |-> f[i]]] :
                f \in [1..n -> Authors]} : n \in 0..MaxDigestMsgs }

InitDigest ==
    /\ InitCog
    /\ detect = NoDetect
    /\ InitStore
    /\ digest \in [messages : DigestInputs, prompt : {<<>>}, calls : {0},
                    ret : {""}, done : {FALSE}]
    /\ InitRest

\* analyze_batch is called and returns.
Analyze(outcome) ==
    /\ ~digest.done
    /\ LET r == AnalyzeBatch(digest.messages, outcome)
       IN  digest' = [digest EXCEPT !.prompt = r.prompt, !.calls = r.calls,
                                    !.ret = r.ret, !.done = TRUE]
    /\ UNCHANGED <<cog, detect, store, latest, ninserts, answer, sched, boot>>

NextDigest == \E outcome \in {"reply", "raise"} : Analyze(outcome)

SpecDigest == InitDigest /\ [][NextDigest]_vars

\* ------------------------------------------------------------ scheduler cog
\* The monitored channels in which the messages of a run are posted, in the
\* order the fetch loop visits them; the other monitored channels stay empty.
DigestChannels == <<"1019678288618205294", "821856844137758730">>

\* The channels /setchannel is given.
SetTargets == {"2001", "2002"}

\* Who posts: a user, a bot.
PostShapes ==
    { [bot |-> FALSE, author |-> <<"u","s","e","r","1">>],
      [bot |-> TRUE, author |-> <<"h","e","l","p","e","r">>] }

\* The rest of the state is left as it is.
OnlySched == UNCHANGED <<cog, detect, store, latest, ninserts, answer, digest, boot>>

\* A message is posted in a monitored channel; the clock moves on, so that no
\* two messages are created at the same instant.
Post(ch, shape) ==
    /\ Len(sched.history) < MaxPosts
    /\ sched' = [sched EXCEPT
                    !.now = @ + 1,
                    !.history = Append(@, [id |-> Len(sched.history) + 1,
                                           channel |-> ch, bot |-> shape.bot,
                                           author |-> shape.author,
                                           created_at |-> sched.now + 1])]
    /\ OnlySched

SetChannelFirstWins(c) ==
    /\ Len(sched.sets) < MaxSets
    /\ sched' = [sched EXCEPT
                    !.summary_channel_id = IF sched.sets = <<>> THEN c ELSE @,
                    !.sets = Append(@, c)]
    /\ OnlySched

\* set_channel_command(interaction, channel)
SetChannel(c) ==
    /\ Len(sched.sets) < MaxSets
    /\ sched' = [sched EXCEPT !.summary_channel_id = c,
                              !.sets = Append(@, c)]
    /\ OnlySched

CutoffAlwaysLookback(last_run, now) == now - Lookback

\* _fetch_recent_messages: cutoff (lines 29-32)
Cutoff(last_run, now) ==
    IF last_run # NoTime THEN last_run ELSE now - Lookback

\* The locals of a handler that has reached the fetch loop and delivers to;
\* t0, n0 and nsets0 record when it started: the clock, the digests
\* delivered and the /setchannel commands run until then; bad, the turns of
\* its fetch loop that ended in the except clause or at `continue`.
NewRun(to) ==
    [pc |-> "fetching", cutoff |-> Cutoff(sched.last_run, sched.now),
     ci |-> 1, messages |-> <<>>, to |-> to, nsets0 |-> Len(sched.sets),
     t0 |-> sched.now, n0 |-> Len(sched.sent), bad |-> {}]

\* schedule_daily fires: its two early returns, or on to the fetch loop, up
\* to the first await (the history of the first channel).  resolves: whether
\* bot.get_channel finds the destination channel.
\* The non-bot messages a fetch starting now would have in its window.
WindowIds ==
    {sched.history[i].id : i \in
        {k \in 1..Len(sched.history) :
            /\ ~sched.history[k].bot
            /\ sched.history[k].created_at
                   > Cutoff(sched.last_run, sched.now)}}

ScheduleDailyMovesLastRun(resolves) ==
    IF sched.summary_channel_id = "" \/ ~resolves
    THEN [sched EXCEPT !.nskips = @ + 1,
                       !.last_run = sched.now,
                       !.skipped = [any |-> TRUE, ids |-> WindowIds,
                                    last_run |-> sched.last_run,
                                    started |-> FALSE]]
    ELSE [sched EXCEPT !.nruns = @ + 1,
                       !.runs["daily"] = NewRun(sched.summary_channel_id),
                       !.skipped.started = TRUE]

\* schedule_daily up to its first await
ScheduleDaily(resolves) ==
    IF sched.summary_channel_id = "" \/ ~resolves
    THEN [sched EXCEPT !.nskips = @ + 1,
                       !.skipped = [any |-> TRUE, ids |-> WindowIds,
                                    last_run |-> sched.last_run,
                                    started |-> FALSE]]
    ELSE [sched EXCEPT !.nruns = @ + 1,
                       !.runs["daily"] = NewRun(sched.summary_channel_id),
                       !.skipped.started = TRUE]

\* schedule_daily can be called: it is not running, and the firings of
\* its kind are not used up.
DailyIdle(resolves) ==
    /\ sched.runs["daily"].pc = "idle"
    /\ IF sched.summary_channel_id = "" \/ ~resolves
       THEN sched.nskips < MaxSkips
       ELSE sched.nruns < MaxRuns

\* The loop calls schedule_daily.
FireDaily(resolves) ==
    /\ DailyIdle(resolves)
    /\ sched' = ScheduleDaily(resolves)
    /\ OnlySched

\* summary_command, after interaction.response.defer(), up to the first
\* await of the fetch loop; its digest goes to the interaction.
StartCmd ==
    /\ sched.runs["cmd"].pc = "idle"
    /\ sched.nruns < MaxRuns
    /\ sched' = [sched EXCEPT !.nruns = @ + 1,
                              !.runs["cmd"] = NewRun("interaction"),
                              !.skipped.started = TRUE]
    /\ OnlySched

\* channel.history(after=cutoff, limit=500): the oldest messages after the
\* cutoff, up to the limit
HistoryOf(history, ch, cutoff) ==
    Take(SelectSeq(history,
                   LAMBDA m : m.channel = ch /\ m.created_at > cutoff),
         HistoryLimit)

FetchedAbortOnFailure(page, outcome, sofar) ==
    CASE outcome = "ok" -> sofar \o SelectSeq(page, LAMBDA m : ~m.bot)
      [] outcome = "partial" ->
            sofar \o SelectSeq(Take(page, 1), LAMBDA m : ~m.bot)
      [] OTHER -> <<>>

\* The list `messages` after one turn of the fetch loop.  outcome: "ok",
\* "none" (get_channel returns None), "raise" (get_channel or history raises
\* before a message is read), "partial" (history raises after one message).
Fetched(page, outcome, sofar) ==
    CASE outcome = "ok" -> sofar \o SelectSeq(page, LAMBDA m : ~m.bot)
      [] outcome = "partial" ->
            sofar \o SelectSeq(Take(page, 1), LAMBDA m : ~m.bot)
      [] OTHER -> sofar

GenerateSummaryNoCatch(messages, model) ==
    IF messages = <<>>
    THEN [text |-> NothingNew, calls |-> 0, prompt |-> <<>>]
    ELSE LET r == AnalyzeBatch([i \in 1..Len(messages) |->
                                   [id |-> messages[i].id,
                                    author |-> messages[i].author]], model)
         IN  [text |-> IF r.calls = 1 /\ model = "raise"
                       THEN "Traceback" ELSE r.ret,
              calls |-> r.calls, prompt |-> r.prompt]

\* generate_summary after the fetch: the text and the messages it returns,
\* the model call ending as model.
GenerateSummary(messages, model) ==
    IF messages = <<>>
    THEN [text |-> NothingNew, calls |-> 0, prompt |-> <<>>]
    ELSE LET r == AnalyzeBatch([i \in 1..Len(messages) |->
                                   [id |-> messages[i].id,
                                    author |-> messages[i].author]], model)
         IN  [text |-> r.ret, calls |-> r.calls, prompt |-> r.prompt]

FetchStarted(run, now) == run.t0

\* self.last_run = datetime.now(pytz.UTC) after the fetch loop (line 52)
FetchCompleted(run, now) == now

\* One turn of the fetch loop of a running handler ends; after the last
\* channel the handler runs on without suspending: last_run is set, the
\* digest is generated and handed to send.
FetchChannel(slot, outcome, model) ==
    LET run == sched.runs[slot]
        ch == DigestChannels[run.ci]
        msgs == Fetched(HistoryOf(sched.history, ch, run.cutoff), outcome,
                        run.messages)
        g == GenerateSummary(msgs, model)
        ids == [i \in 1..Len(msgs) |-> msgs[i].id]
        bad == IF outcome = "ok" THEN run.bad ELSE run.bad \cup {run.ci}
    IN  /\ run.pc = "fetching"
        /\ IF run.ci < Len(DigestChannels)
           THEN /\ model = "reply"
                /\ sched' = [sched EXCEPT !.runs[slot].ci = @ + 1,
                                          !.runs[slot].messages = msgs,
                                          !.runs[slot].bad = bad]
           ELSE sched' = [sched EXCEPT
                            !.last_run = FetchCompleted(run, sched.now),
                            !.runs[slot] = NoRun,
                            !.lastbad = bad,
                            !.collected = @ \cup Range(ids),
                            !.sent = Append(@,
                                [by |-> slot, to |-> run.to, text |-> g.text,
                                 ids |-> ids, calls |-> g.calls,
                                 failed |-> (g.calls = 1 /\ model = "raise"),
                                 nsets0 |-> run.nsets0,
                                 t0 |-> run.t0, n0 |-> run.n0,
                                 at |-> sched.now])]
        /\ OnlySched

\* /summary with every channel found and read without failure: posts, the
\* command, the model call replying or raising.
NextSched ==
    \/ \E ch \in Range(DigestChannels), shape \in PostShapes : Post(ch, shape)
    \/ StartCmd
    \/ \E model \in {"reply", "raise"} : FetchChannel("cmd", "ok", model)

SpecSched == Init /\ [][NextSched]_vars

\* /summary with monitored channels that are not found or fail to be read.
NextSchedFail ==
    \/ \E ch \in Range(DigestChannels), shape \in PostShapes : Post(ch, shape)
    \/ StartCmd
    \/ \E outcome \in {"ok", "none", "raise", "partial"} :
          FetchChannel("cmd", outcome, "reply")

SpecSchedFail == Init /\ [][NextSchedFail]_vars

\* The daily timer and /summary side by side, with users posting in the
\* first monitored channel and channels that fail to be read.
NextWindow ==
    \/ \E shape \in {p \in PostShapes : ~p.bot} :
          Post(DigestChannels[1], shape)
    \/ FireDaily(TRUE)
    \/ StartCmd
    \/ \E slot \in Slots, outcome \in {"ok", "raise"} :
          FetchChannel(slot, outcome, "reply")

SpecWindow == Init /\ [][NextWindow]_vars

\* The daily timer with a destination that may fail to resolve, /summary
\* beside it, and users posting in the first monitored channel.
NextSkip ==
    \/ \E shape \in {p \in PostShapes : ~p.bot} :
          Post(DigestChannels[1], shape)
    \/ \E resolves \in BOOLEAN : FireDaily(resolves)
    \/ StartCmd
    \/ \E slot \in Slots : FetchChannel(slot, "ok", "reply")

SpecSkip == Init /\ [][NextSkip]_vars

\* The daily timer and /setchannel, with nothing posted.
NextDest ==
    \/ \E c \in SetTargets : SetChannel(c)
    \/ \E resolves \in BOOLEAN : FireDaily(resolves)
    \/ FetchChannel("daily", "ok", "reply")

SpecDest == Init /\ [][NextDest]_vars

\* ------------------------------------------------------------------- timer
\* Instants are clock ticks of UTC.  The configured zone is at UTC until the
\* instant `change` and `shift` ticks ahead of UTC from then on: an hour
\* forward, an hour back, or no change.
DayLen == DayHours * HourLen

\* timedelta.total_seconds() of one day, in ticks
OneDay == DayLen

\* The zone's offset from UTC at instant t.
UtcOffset(tm, t) == IF t < tm.change THEN 0 ELSE tm.shift

\* The wall clock of the zone at instant t.
WallClock(tm, t) == t + UtcOffset(tm, t)

\* The instants at which the zone changes its offset by shift: the clocks go
\* forward from the first hour of a day and back from its second hour, so
\* the summary hour is neither skipped nor repeated.
ChangeInstants(shift) ==
    IF shift = 0 THEN {0}
    ELSE {c \in DayLen..(3 * DayLen) :
             c % DayLen = (IF shift > 0 THEN 0 ELSE HourLen)}

\* The cog is constructed in a process that becomes ready at some instant
\* of two days, in a zone that changes its offset or does not.
InitTimer ==
    /\ InitCog
    /\ detect = NoDetect
    /\ InitStore
    /\ digest = NoDigest
    /\ boot = NoBoot
    /\ \E start \in DayLen..(3 * DayLen - 1),
          shift \in {-HourLen, 0, HourLen} :
          \E change \in ChangeInstants(shift) :
              sched = [SchedAtConstruction EXCEPT
                          !.timer.start = start, !.timer.shift = shift,
                          !.timer.change = change]

\* now.replace(hour=Config.SUMMARY_HOUR, minute=0, second=0, microsecond=0)
\* on a wall-clock reading: the same date and the same tzinfo
ReplaceHour(now) == (now \div DayLen) * DayLen + SummaryHour * HourLen

\* before_schedule_daily: target (lines 85-87)
Target(now) ==
    IF now >= ReplaceHour(now) THEN ReplaceHour(now) + OneDay
    ELSE ReplaceHour(now)

\* before_schedule_daily, from bot.wait_until_ready() returning to the
\* sleep: datetime.now(et) reads the wall clock with the offset in force,
\* and target keeps that offset, so target - now is the time to sleep.
BeforeScheduleDaily ==
    LET tm == sched.timer
        now == tm.start + UtcOffset(tm, tm.start)
    IN  /\ tm.pc = "created"
        /\ sched' = [sched EXCEPT
                        !.timer.pc = "sleeping",
                        !.timer.now = now,
                        !.timer.target = Target(now),
                        !.timer.wait_seconds = Target(now) - now]
        /\ OnlySched

\* The loop of @tasks.loop(hours=24) calls schedule_daily: the first time
\* when the sleep of the before_loop hook ends, then a day after each call.
TimerFire(resolves) ==
    LET tm == sched.timer
        at == IF tm.pc = "sleeping" THEN tm.start + tm.wait_seconds
              ELSE Last(tm.fired) + OneDay
    IN  /\ tm.pc \in {"sleeping", "looping"}
        /\ DailyIdle(resolves)
        /\ sched' = [ScheduleDaily(resolves) EXCEPT
                        !.timer.pc = "looping",
                        !.timer.fired = Append(@, at)]
        /\ OnlySched

NextTimer ==
    \/ BeforeScheduleDaily
    \/ \E resolves \in BOOLEAN : TimerFire(resolves)
    \/ FetchChannel("daily", "ok", "reply")

SpecTimer == InitTimer /\ [][NextTimer]_vars

\* ----------------------------------------------------------------- startup
\* The values an environment variable of a credential is given: not set,
\* empty, blank, a value.
CredentialValues == {Unset, "", " ", "secret"}

\* The values LOG_LEVEL is given: not set, a level of logging, another word.
LogLevelValues == {Unset, "DEBUG", "verbose"}

\* The attributes of the logging module that LOG_LEVEL can name.
LoggingLevels == {"DEBUG", "INFO", "WARNING", "ERROR", "CRITICAL"}

\* os.environ.get(name, default)
EnvironGet(value, default) == IF value = Unset THEN default ELSE value

\* The process is started in some environment.
InitBoot ==
    /\ InitCog
    /\ detect = NoDetect
    /\ InitStore
    /\ digest = NoDigest
    /\ InitSched
    /\ \E t \in CredentialValues, k \in CredentialValues,
          l \in LogLevelValues :
          boot = [NoBoot EXCEPT !.env = [DISCORD_BOT_TOKEN |-> t,
                                         ANTHROPIC_API_KEY |-> k,
                                         LOG_LEVEL |-> l]]

\* The rest of the state is left as it is.
OnlyBoot ==
    UNCHANGED <<cog, detect, store, latest, ninserts, answer, digest, sched>>

\* bot.main is imported: the class body of Config reads the environment
\* (config.py:11-14), then logging.basicConfig looks the level up
\* (main.py:10-13); a LOG_LEVEL that names no attribute of logging raises
\* AttributeError and the process ends.
Import ==
    /\ boot.pc = "off"
    /\ LET cfg == [DISCORD_TOKEN |->
                      EnvironGet(boot.env.DISCORD_BOT_TOKEN, ""),
                   ANTHROPIC_API_KEY |->
                      EnvironGet(boot.env.ANTHROPIC_API_KEY, ""),
                   LOG_LEVEL |-> EnvironGet(boot.env.LOG_LEVEL, "INFO")]
       IN  boot' = [boot EXCEPT
                      !.Config = cfg,
                      !.pc = IF cfg.LOG_LEVEL \in LoggingLevels
                             THEN "imported" ELSE "crashed"]
    /\ OnlyBoot

ValidateErrorsFirstOnly(cfg) ==
    IF cfg.DISCORD_TOKEN = ""
    THEN <<"DISCORD_BOT_TOKEN environment variable is required">>
    ELSE IF cfg.ANTHROPIC_API_KEY = ""
         THEN <<"ANTHROPIC_API_KEY environment variable is required">>
         ELSE <<>>

\* Config.validate: the list `errors`
ValidateErrors(cfg) ==
    (IF cfg.DISCORD_TOKEN = ""
     THEN <<"DISCORD_BOT_TOKEN environment variable is required">>
     ELSE <<>>)
    \o (IF cfg.ANTHROPIC_API_KEY = ""
        THEN <<"ANTHROPIC_API_KEY environment variable is required">>
        ELSE <<>>)

\* main(): Config.validate() and the except ValueError that logs the
\* errors and returns (main.py:18-22).
Validate ==
    /\ boot.pc = "imported"
    /\ LET errors == ValidateErrors(boot.Config)
       IN  boot' = [boot EXCEPT
                      !.errors = errors,
                      !.pc = IF errors # <<>> THEN "exited" ELSE "validated"]
    /\ OnlyBoot

\* main(): the bot and the database object are created and the two event
\* handlers registered (main.py:24-43).
CreateBot ==
    /\ boot.pc = "validated"
    /\ boot' = [boot EXCEPT !.pc = "bot_created"]
    /\ OnlyBoot

\* main(): bot.add_cog(DailySummaryScheduler(bot)) (main.py:45-50).
\* outcome: "ok"; "ctor", the constructor raises before the timer is
\* started; "add", add_cog raises after the constructor started the timer.
AddCog(outcome) ==
    /\ boot.pc = "bot_created"
    /\ boot' = [boot EXCEPT
                   !.timers = IF outcome = "ctor" THEN @
                              ELSE @ \cup {"schedule_daily"},
                   !.cogs = IF outcome = "ok"
                            THEN @ \cup {"DailySummaryScheduler"} ELSE @,
                   !.pc = IF outcome = "ok" THEN "cogs_loaded" ELSE "exited"]
    /\ OnlyBoot

\* main(): bot.run(Config.DISCORD_TOKEN) (main.py:53)
Run ==
    /\ boot.pc = "cogs_loaded"
    /\ boot' = [boot EXCEPT !.pc = "running", !.bot_running = TRUE]
    /\ OnlyBoot

NextBoot ==
    \/ Import
    \/ Validate
    \/ CreateBot
    \/ \E outcome \in {"ok", "ctor", "add"} : AddCog(outcome)
    \/ Run

SpecBoot == InitBoot /\ [][NextBoot]_vars

\* ------------------------------------------------------------------ claims
Ids(items) == [i \in 1..Len(items) |-> items[i].message_id]

\* The insert calls of the current or just-finished drain.
DrainCalls == SubSeq(db_calls, drain.ndb0 + 1, Len(db_calls))

DrainRecordIds == [i \in 1..Len(DrainCalls) |-> DrainCalls[i].rec.message_id]

\* A drain through _analyze_batch as written has just finished.
RealDrainDone == drain.done /\ drain.path = "real"

\* The batch items whose client call did not raise, in batch order.
ClassifiedIds ==
    LET n == Len(drain.outs)
        keep == {i \in 1..n : drain.outs[i] \notin Exceptions}
        F[i \in 0..n] ==
            IF i = 0 THEN <<>>
            ELSE IF i \in keep THEN Append(F[i - 1], drain.batch0[i].message_id)
            ELSE F[i - 1]
    IN  F[n]

\* C1: when the queue holds N >= 1 items, the drain is triggered and a
\* classifier call raises a rate-limit signal, the drain ends with the same N
\* items back at the front of the queue in their original order and the retry
\* counter one higher than before.
C1_RateLimitedDrainRequeues ==
    (RealDrainDone /\ "RateLimitError" \in Range(drain.outs)) =>
        /\ Take(message_queue, Len(drain.batch0)) = drain.batch0
        /\ retry_count = drain.retry0 + 1

\* C2: the rate-limit handler re-inserts the whole batch at the front of the
\* queue and leaves the counter one higher while that does not pass the
\* ceiling of 3 (counter 1, 2, 3); the invocation that takes the counter past
\* 3 re-inserts nothing and resets the counter to 0.
C2_RateLimitCeiling ==
    /\ retry_count \in 0..3
    /\ (drain.done /\ drain.exc = "RateLimitError") =>
          IF drain.retry0 < 3
          THEN /\ retry_count = drain.retry0 + 1
               /\ Take(message_queue, Len(drain.batch0)) = drain.batch0
               /\ message_queue = Take(drain.batch0 \o drain.qpre, QueueMaxLen)
          ELSE /\ retry_count = 0
               /\ message_queue = drain.qpre

C2_Witness ==
    /\ drain.done /\ drain.exc = "RateLimitError"
    /\ drain.retry0 = 3 /\ Len(drain.batch0) >= 2 /\ retry_count = 0

\* C3: the backoff wait of a rate-limit retry is 2^retry_count plus a jitter
\* in [0, 1], retry_count being the counter after its increment; so the wait
\* of a retry is strictly greater than the wait of the retry before it,
\* whatever the two jitters.
C3_BackoffGrows ==
    [][(pc = "awaiting" /\ pc' = "idle" /\ retry_count' = retry_count + 1) =>
          /\ wait_time' >= (2 ^ retry_count') * JitterSteps
          /\ wait_time' <= (2 ^ retry_count' + 1) * JitterSteps
          /\ (retry_count >= 1 => wait_time' > wait_time)]_vars

C3_Witness ==
    /\ drain.done /\ drain.exc = "RateLimitError"
    /\ retry_count = 2 /\ wait_time = 4 * JitterSteps

\* C4: a drain of N >= 1 items in which every classifier call and every store
\* succeeds and during which no message arrives ends with the queue empty,
\* exactly N records stored, one per item in queue order, and the retry
\* counter at 0.
C4_CleanDrain ==
    ( /\ RealDrainDone
      /\ drain.arrived = 0
      /\ \A i \in 1..Len(drain.outs) : drain.outs[i] \notin Exceptions
      /\ \A i \in 1..Len(DrainCalls) : DrainCalls[i].ok ) =>
        /\ message_queue = <<>>
        /\ Len(DrainCalls) = Len(drain.batch0)
        /\ DrainRecordIds = Ids(drain.batch0)
        /\ \A i \in 1..Len(DrainCalls) :
              DrainCalls[i].rec.content = drain.batch0[i].content
        /\ retry_count = 0

C4_Witness ==
    /\ RealDrainDone /\ drain.arrived = 0
    /\ Len(drain.batch0) >= 2 /\ drain.retry0 > 0
    /\ \A i \in 1..Len(drain.outs) : drain.outs[i] \notin Exceptions
    /\ Len(DrainCalls) = Len(drain.batch0)
    /\ \A i \in 1..Len(DrainCalls) : DrainCalls[i].ok

C6_ItemFailureSwallowed ==
    RealDrainDone =>
        /\ drain.exc = "none"
        /\ retry_count = 0
        /\ Len(drain.outs) = Len(drain.batch0)
        /\ DrainRecordIds = ClassifiedIds
        /\ \A i \in 1..Len(drain.batch0) :
              drain.batch0[i] \notin Range(message_queue)

C6_Witness ==
    /\ RealDrainDone
    /\ Len(drain.outs) >= 3
    /\ drain.outs[1] \notin Exceptions
    /\ drain.outs[2] \in Exceptions
    /\ drain.outs[3] \notin Exceptions
    /\ Len(DrainCalls) = 2 /\ DrainCalls[2].ok

\* C7: a store that fails for one record of a drain keeps no later record of
\* the batch from being handed to the store, puts nothing back in the queue,
\* and does not abort the drain: the retry counter is still reset to 0.
C7_StoreFailureDoesNotBlock ==
    (RealDrainDone /\ \E i \in 1..Len(DrainCalls) : ~DrainCalls[i].ok) =>
        /\ Len(DrainCalls) = Len(ClassifiedIds)
        /\ \A i \in 1..Len(drain.batch0) :
              drain.batch0[i] \notin Range(message_queue)
        /\ Len(message_queue) = Min(drain.arrived, QueueMaxLen)
        /\ drain.exc = "none"
        /\ retry_count = 0

C7_Witness ==
    /\ RealDrainDone /\ drain.retry0 > 0
    /\ Len(DrainCalls) >= 2
    /\ ~DrainCalls[1].ok /\ DrainCalls[2].ok

\* C8: in every reachable state the queue holds at most 500 items
\* (QueueMaxLen in the model).
C8_QueueBounded == Len(message_queue) <= QueueMaxLen

C8_Witness ==
    /\ Len(message_queue) = QueueMaxLen
    /\ drain.done /\ drain.exc \in {"RateLimitError", "APIError"}
    /\ Len(drain.batch0) + Len(drain.qpre) > QueueMaxLen

\* The oldest item of a queue: the one captured first.
Oldest(q) == CHOOSE e \in Range(q) : \A f \in Range(q) : e.message_id <= f.message_id

Newest(q) == CHOOSE e \in Range(q) : \A f \in Range(q) : e.message_id >= f.message_id

C10_Conditions(m) ==
    /\ ~m.author_bot
    /\ m.guild # None
    /\ Strip(m.content) # <<>>
    /\ m.channel_id \in MONITORED_CHANNEL_IDS
    /\ Len(mentions_monitored_app(m.content)) >= 1

\* C10: on_message appends exactly one item, the one of its message, if the
\* author is not a bot, the message is in a guild, the content is non-empty
\* after stripping, the channel is monitored and the mention detector returns
\* a product; in every other case it leaves the queue unchanged.
C10_EnqueueIff ==
    [][last_msg'.id # 0 =>
          IF C10_Conditions(last_msg')
          THEN /\ message_queue' # <<>>
               /\ Last(message_queue').message_id = last_msg'.id
               /\ Front(message_queue') =
                     IF Len(message_queue) < QueueMaxLen THEN message_queue
                     ELSE Tail(message_queue)
          ELSE message_queue' = message_queue]_vars

C10_Witness ==
    /\ last_msg.id # 0
    /\ C10_Conditions(last_msg)
    /\ Len(message_queue) = QueueMaxLen
    /\ evs # <<>>

T_spiral_sparkle ==
    <<"s","p","i","r","a","l",",","s","p","a","r","k","l","e">>

\* C11: every item ever present in the queue or in a working batch, and every
\* record ever handed to the persistence layer, has a non-empty
\* apps_mentioned, made of configured product names.
C11_AppsMentionedNonEmpty ==
    /\ \A i \in 1..Len(message_queue) :
          /\ message_queue[i].apps_mentioned # <<>>
          /\ Range(message_queue[i].apps_mentioned) \subseteq Range(MONITORED_APPS)
    /\ \A i \in 1..Len(batch) : batch[i].apps_mentioned # <<>>
    /\ \A i \in 1..Len(db_calls) : db_calls[i].rec.apps_mentioned # <<>>

C11_Witness ==
    /\ last_msg.id # 0 /\ last_msg.content = T_plain
    /\ message_queue = <<>>
    /\ \E i \in 1..Len(db_calls) :
          db_calls[i].rec.apps_mentioned = T_spiral_sparkle

\* C12: the content of a queued item is the first 1000 characters of the
\* message's content (ContentMax in the model): at most that long, exactly
\* that long when the original is longer; and the content of a record handed
\* to the store is the content of the queued item it was made from.
C12_ContentTruncated ==
    [][ /\ (last_msg'.id # 0 /\ message_queue' # message_queue) =>
              LET item == Last(message_queue')
                  orig == last_msg'.content
              IN  /\ item.message_id = last_msg'.id
                  /\ Len(item.content) <= ContentMax
                  /\ Len(orig) > ContentMax => Len(item.content) = ContentMax
                  /\ Len(orig) <= ContentMax => item.content = orig
                  /\ \A k \in 1..Len(item.content) : item.content[k] = orig[k]
        /\ Len(db_calls') > Len(db_calls) =>
              LET rec == Last(db_calls').rec
              IN  \E k \in 1..Len(drain.batch0) :
                      /\ drain.batch0[k].message_id = rec.message_id
                      /\ drain.batch0[k].content = rec.content ]_vars

C12_Witness ==
    \E i \in 1..Len(db_calls) :
        /\ db_calls[i].ok
        /\ Len(db_calls[i].rec.content) = ContentMax
        /\ db_calls[i].rec.content = SubSeq(T_long, 1, ContentMax)

\* The product names of C13, in the order it gives.
C13_Products ==
    << <<"c","o","r","a">>, <<"s","p","i","r","a","l">>,
       <<"s","p","a","r","k","l","e">>,
       <<"m","o","n","o","l","o","g","u","e">> >>

\* The name occurs in the text, letter case aside.
C13_Occurs(name, text) ==
    \E i \in 1..Len(text) :
        /\ i + Len(name) - 1 <= Len(text)
        /\ \A k \in 1..Len(name) : LowerChar(text[i + k - 1]) = name[k]

\* C13: the mention detector returns exactly the configured product names
\* that occur in the text as a case-insensitive substring, each once however
\* often it is repeated, in the order cora, spiral, sparkle, monologue; for a
\* text with none of them it returns the empty list.
C13_DetectorExact ==
    detect.done =>
        LET r == detect.result
            pos(name) == CHOOSE i \in 1..4 : C13_Products[i] = name
        IN  /\ Range(r) \subseteq Range(C13_Products)
            /\ \A i \in 1..4 :
                  (C13_Products[i] \in Range(r)) <=>
                      C13_Occurs(C13_Products[i], detect.text)
            /\ \A i, j \in 1..Len(r) : i < j => pos(r[i]) < pos(r[j])
            /\ (\A i \in 1..4 : ~C13_Occurs(C13_Products[i], detect.text)) =>
                  r = <<>>

C13_Witness ==
    /\ detect.done
    /\ detect.text = <<"s","p","i","R","A","L">> \o <<"C","o","r","a">>
                         \o <<"C","O","R","A"," ">>
    /\ detect.result = << <<"c","o","r","a">>, <<"s","p","i","r","a","l">> >>

\* The insert calls of the drain made for the i-th item of its batch.
CallsFor(i) ==
    {k \in 1..Len(DrainCalls) :
        DrainCalls[k].rec.message_id = drain.batch0[i].message_id}

\* The default result of the classifier for an item.
IsDefaultRecord(rec, item) ==
    /\ rec.sentiment = "neutral"
    /\ rec.feedback_type = "general"
    /\ rec.actionable = FALSE
    /\ rec.summary = SubSeq(item.content, 1,
                            IF Len(item.content) < SummaryMax
                            THEN Len(item.content) ELSE SummaryMax)

\* C14: an item whose reply is not valid structured data and has no
\* brace-delimited substring still yields one record handed to the store, with
\* sentiment neutral, feedback_type general, actionable false and the first
\* 100 characters of the item's content (SummaryMax in the model) as summary.
C14_UnparseableReplyDefaults ==
    RealDrainDone =>
        \A i \in 1..Len(drain.outs) :
            drain.outs[i] = "text" =>
                /\ Cardinality(CallsFor(i)) = 1
                /\ \A k \in CallsFor(i) :
                      /\ IsDefaultRecord(DrainCalls[k].rec, drain.batch0[i])
                      /\ DrainCalls[k].rec.content = drain.batch0[i].content

C14_Witness ==
    /\ RealDrainDone
    /\ Len(drain.outs) = 2 /\ drain.outs[1] = "json" /\ drain.outs[2] = "text"
    /\ Len(drain.batch0[2].content) > SummaryMax
    /\ Len(DrainCalls) = 2 /\ DrainCalls[2].ok
    /\ DrainCalls[2].rec.sentiment = "neutral"

\* C15: for every reply text the model returns, the classification of the
\* item yields a result: one record is handed to the store, and when neither
\* the reply nor its first brace-delimited substring parses, that record is
\* the default one (neutral, general, truncated content, not actionable).
C15_EveryReplyYieldsRecord ==
    RealDrainDone =>
        \A i \in 1..Len(drain.outs) :
            drain.outs[i] \notin Exceptions =>
                /\ Cardinality(CallsFor(i)) = 1
                /\ drain.outs[i] = "brace_bad" =>
                      \A k \in CallsFor(i) :
                          IsDefaultRecord(DrainCalls[k].rec, drain.batch0[i])

\* The values C16 allows.
C16_Sentiments == {"positive", "negative", "neutral", "mixed"}

C16_FeedbackTypes ==
    {"bug", "feature_request", "praise", "complaint", "question", "general"}

\* C16: every record the classifier produces and hands to the store has its
\* sentiment among positive, negative, neutral, mixed and its feedback_type
\* among bug, feature_request, praise, complaint, question, general, whatever
\* the model replied.
C16_RecordValuesInRange ==
    \A i \in 1..Len(db_calls) :
        /\ db_calls[i].rec.sentiment \in C16_Sentiments
        /\ db_calls[i].rec.feedback_type \in C16_FeedbackTypes

\* The message ids whose last inserted record is in the window from t on.
InWindow(t) ==
    {id \in StoreIds :
        latest[id].present /\ latest[id].message_timestamp >= t}

\* C17: after any sequence of insertions the store holds exactly one record
\* per message_id; an insert whose message_id is present replaces the record,
\* which then carries the fields of the later insert, and the number of
\* records does not grow.
C17_OneRecordPerMessageId ==
    /\ \A i, j \in 1..Len(store) :
          store[i].message_id = store[j].message_id => i = j
    /\ Len(store) = Cardinality({id \in StoreIds : latest[id].present})
    /\ \A id \in StoreIds :
          latest[id].present =>
              \E i \in 1..Len(store) :
                  /\ store[i].message_id = id
                  /\ store[i].content = latest[id].content
                  /\ store[i].sentiment = latest[id].sentiment
                  /\ store[i].message_timestamp = latest[id].message_timestamp
                  /\ store[i].apps_mentioned = Join(latest[id].apps, <<",">>)

C17_Witness ==
    /\ ninserts = 2 /\ Len(store) = 1
    /\ store[1].content = <<"U","p","d">> /\ store[1].sentiment = "negative"

\* C18: in the statistics, the count of product A is the number of records
\* in the window whose apps_mentioned contains A: a record mentioning several
\* products is counted under each of them and once in the total.
C18_PerProductCounts ==
    answer.op = "stats" =>
        /\ answer.total = Cardinality(InWindow(answer.since))
        /\ \A a \in Range(MONITORED_APPS) :
              answer.by_app[a] =
                  Cardinality({id \in InWindow(answer.since) :
                                  a \in Range(latest[id].apps)})

C18_Witness ==
    /\ answer.op = "stats" /\ Len(store) = 2
    /\ answer.total = 1
    /\ answer.by_app[<<"c","o","r","a">>] = 1
    /\ answer.by_app[<<"s","p","i","r","a","l">>] = 1

\* C19: the time-range query with lower bound T returns exactly the stored
\* records whose message timestamp is >= T.
C19_SinceExact ==
    answer.op = "since" =>
        /\ {answer.rows[i].message_id : i \in 1..Len(answer.rows)} =
              InWindow(answer.since)
        /\ Len(answer.rows) = Cardinality(InWindow(answer.since))
        /\ \A i \in 1..Len(answer.rows) :
              /\ answer.rows[i] \in Range(store)
              /\ answer.rows[i].message_timestamp >= answer.since

C19_Witness ==
    /\ answer.op = "since" /\ answer.since = 1
    /\ Len(store) = 2 /\ Len(answer.rows) = 1
    /\ answer.rows[1].message_timestamp = 1

\* The authors of C20: the author strings of Authors that belong to an
\* allow-listed internal-team member.
C20_TeamAuthors ==
    { <<"n","a","v","e","e","n","_","z">>,
      <<"N","a","v","e","e","n","_","Z","#","1","2","3","4">>,
      <<"k","i","e","r","a","n","_","2","#","0">>,
      <<"M","A","R","C","U","S","E","V","E","R","Y">> }

\* C20: when every fetched message is authored by an allow-listed
\* internal-team member, and there is at least one, the digest generator
\* returns the fixed no-user-feedback literal and never invokes the model.
C20_OnlyTeamNoModelCall ==
    ( /\ digest.done
      /\ digest.messages # <<>>
      /\ \A i \in 1..Len(digest.messages) :
            digest.messages[i].author \in C20_TeamAuthors ) =>
        /\ digest.ret =
              "Only team member messages found. No user feedback to analyze."
        /\ digest.calls = 0
        /\ digest.prompt = <<>>

C20_Witness ==
    /\ digest.done
    /\ Len(digest.messages) = 2
    /\ digest.messages[1].author = <<"N","a","v","e","e","n","_","Z","#","1","2","3","4">>
    /\ digest.messages[2].author = <<"k","i","e","r","a","n","_","2","#","0">>
    /\ digest.calls = 0

\* C21: a fetched message is left out of the digest prompt if and only if the
\* part of its author string before the first '#', letter case aside, is in
\* the internal-team set; every other fetched message is in the prompt once,
\* in fetch order.
C21_PromptExcludesExactlyTeam ==
    digest.done =>
        /\ \A i \in 1..Len(digest.messages) :
              (digest.messages[i].id \notin Range(digest.prompt)) <=>
                  (digest.messages[i].author \in C20_TeamAuthors)
        /\ Range(digest.prompt) \subseteq
              {digest.messages[i].id : i \in 1..Len(digest.messages)}
        /\ \A i, j \in 1..Len(digest.prompt) :
              i < j => digest.prompt[i] < digest.prompt[j]

C21_Witness ==
    /\ digest.done /\ digest.calls = 1
    /\ Len(digest.messages) = 3
    /\ digest.messages[1].author = <<"n","a","v","e","e","n","_","z","z">>
    /\ digest.messages[2].author = <<"N","a","v","e","e","n","_","Z","#","1","2","3","4">>
    /\ digest.messages[3].author = <<"b","o","b","#","n","a","v","e","e","n","_","z">>
    /\ digest.prompt = <<1, 3>>

\* C22: when the model call of the digest generator fails, the generator
\* returns the text "Error: " followed by the failure instead of raising, and
\* the handler delivers that text as the digest: every handler that was
\* started and is no longer fetching has delivered one.
C22_ModelFailureDelivered ==
    /\ \A k \in 1..Len(sched.sent) :
          sched.sent[k].failed =>
              /\ sched.sent[k].text = "Error: str(e)"
              /\ sched.sent[k].to = "interaction"
              /\ sched.sent[k].calls = 1
    /\ sched.nruns = Len(sched.sent)
                       + Cardinality({s \in Slots : sched.runs[s].pc # "idle"})

C22_Witness ==
    \E k \in 1..Len(sched.sent) :
        /\ sched.sent[k].failed
        /\ sched.sent[k].text = "Error: str(e)"
        /\ Len(sched.sent[k].ids) = 1

\* The ids of a list of messages.
C23_Ids(messages) == [i \in 1..Len(messages) |-> messages[i].id]

\* C23: a turn of the fetch loop that fails to look up or to read its
\* channel drops nothing collected from the channels before it, every turn
\* that does not fail adds the non-bot messages its history read returns, and
\* after the last turn the digest is produced from what was collected.
C23_ChannelFailureSkipped ==
    [][ \A slot \in Slots :
          LET run == sched.runs[slot]
              after == sched'.runs[slot]
              last == sched'.sent[Len(sched'.sent)]
              ended == after.pc = "idle"
              got == IF ended THEN last.ids ELSE C23_Ids(after.messages)
              bad == IF ended THEN sched'.lastbad ELSE after.bad
              page == HistoryOf(sched.history, DigestChannels[run.ci],
                                run.cutoff)
          IN  (run.pc = "fetching" /\ (ended \/ after.ci = run.ci + 1)) =>
                /\ Len(got) >= Len(run.messages)
                /\ SubSeq(got, 1, Len(run.messages)) = C23_Ids(run.messages)
                /\ run.ci \notin bad =>
                      got = C23_Ids(run.messages)
                              \o C23_Ids(SelectSeq(page, LAMBDA m : ~m.bot))
                /\ ended =>
                      /\ Len(sched'.sent) = Len(sched.sent) + 1
                      /\ last.calls = IF got = <<>> THEN 0 ELSE 1
                      /\ last.text = IF got = <<>> THEN NothingNew
                                     ELSE "response.content[0].text" ]_vars

C23_Witness ==
    /\ Len(sched.sent) = 2
    /\ sched.lastbad = {1}
    /\ sched.sent[2].n0 = 1
    /\ Len(sched.sent[2].ids) = 1
    /\ sched.sent[2].calls = 1
    /\ sched.history[sched.sent[2].ids[1]].channel = DigestChannels[2]
    /\ \E i \in 1..Len(sched.history) :
          /\ sched.history[i].channel = DigestChannels[1]
          /\ ~sched.history[i].bot
          /\ sched.history[i].created_at > sched.sent[1].at
          /\ sched.history[i].created_at <= sched.sent[2].t0

\* C24: no message falls between two consecutive windows: once no handler
\* is fetching, every non-bot message posted after an invocation started and
\* not after last_run, the cutoff of every later invocation, has been
\* collected.
C24_NoMessageBetweenWindows ==
    ( /\ \A s \in Slots : sched.runs[s].pc = "idle"
      /\ sched.last_run # NoTime ) =>
        \A i \in 1..Len(sched.history) :
            ( /\ ~sched.history[i].bot
              /\ sched.history[i].created_at <= sched.last_run
              /\ \E k \in 1..Len(sched.sent) :
                    sched.sent[k].t0 < sched.history[i].created_at ) =>
                sched.history[i].id \in sched.collected

\* Deliveries k and k + 1 are two /summary invocations in succession: the
\* second started after the first had delivered, and no message was posted
\* from the first delivery to the second.
C25_InSuccession(k) ==
    /\ k + 1 <= Len(sched.sent)
    /\ sched.sent[k].by = "cmd" /\ sched.sent[k + 1].by = "cmd"
    /\ sched.sent[k + 1].n0 = k
    /\ sched.sent[k + 1].at = sched.sent[k].at

\* C25 as stated: /summary twice in succession, with no message arriving in
\* between, delivers the same digest text and the same message count both
\* times.
C25_SummaryIdempotent ==
    \A k \in 1..Len(sched.sent) :
        C25_InSuccession(k) =>
            /\ sched.sent[k + 1].text = sched.sent[k].text
            /\ Len(sched.sent[k + 1].ids) = Len(sched.sent[k].ids)

\* C25, amended: the second of two /summary invocations in succession, with
\* no message arriving in between, collects no message, makes no model call
\* and delivers the fixed nothing-new text with a count of 0, whatever the
\* first delivered.
C25_SecondSummaryNothingNew ==
    \A k \in 1..Len(sched.sent) :
        C25_InSuccession(k) =>
            /\ sched.sent[k + 1].ids = <<>>
            /\ sched.sent[k + 1].calls = 0
            /\ sched.sent[k + 1].text = "Nothing new found. Check back later."

C25_Witness ==
    \E k \in 1..Len(sched.sent) :
        /\ C25_InSuccession(k)
        /\ Len(sched.sent[k].ids) = 1
        /\ sched.sent[k].calls = 1
        /\ sched.sent[k + 1].ids = <<>>

\* C26: a digest of the daily timer is delivered to the channel of the most
\* recent /setchannel run before the firing started, and to the built-in
\* default channel when none was run.
C26_DestinationLastWriteWins ==
    \A k \in 1..Len(sched.sent) :
        sched.sent[k].by = "daily" =>
            sched.sent[k].to =
                IF sched.sent[k].nsets0 = 0 THEN "1467997889987874980"
                ELSE sched.sets[sched.sent[k].nsets0]

C26_Witness ==
    /\ Len(sched.sent) = 2
    /\ sched.sent[1].by = "daily" /\ sched.sent[1].nsets0 = 0
    /\ sched.sent[1].to = "1467997889987874980"
    /\ sched.sent[2].by = "daily" /\ sched.sent[2].nsets0 = 2
    /\ sched.sets[1] # sched.sets[2]
    /\ sched.sent[2].to = sched.sets[2]

\* A credential that is missing from the environment: not set, or empty.
C27_Missing(value) == value \in {Unset, ""}

\* C27: when the chat-platform token or the LLM API key is missing, main()
\* gets no further than validation, which reports every missing credential:
\* no cog is created, no timer is started and the bot is never run.
C27_ConfigFailureFatal ==
    ( \/ C27_Missing(boot.env.DISCORD_BOT_TOKEN)
      \/ C27_Missing(boot.env.ANTHROPIC_API_KEY) ) =>
        /\ boot.pc \in {"off", "imported", "crashed", "exited"}
        /\ boot.cogs = {} /\ boot.timers = {} /\ ~boot.bot_running
        /\ boot.pc = "exited" =>
              /\ ("DISCORD_BOT_TOKEN environment variable is required"
                      \in Range(boot.errors))
                    <=> C27_Missing(boot.env.DISCORD_BOT_TOKEN)
              /\ ("ANTHROPIC_API_KEY environment variable is required"
                      \in Range(boot.errors))
                    <=> C27_Missing(boot.env.ANTHROPIC_API_KEY)

C27_Witness ==
    /\ boot.env.DISCORD_BOT_TOKEN = Unset
    /\ boot.env.ANTHROPIC_API_KEY = ""
    /\ boot.pc = "exited"
    /\ Len(boot.errors) = 2

\* C28: at every moment each captured item is in at most one place, the
\* queue or the batch of the drain in progress, and there is at most one
\* drain in progress: batch_processor holds a batch only between its start
\* and its return, and that batch is the one it took from the queue.
C28_OnePlaceOneDrain ==
    /\ LET places == Ids(message_queue) \o Ids(batch)
       IN  \A i, j \in 1..Len(places) : i # j => places[i] # places[j]
    /\ pc = "idle" => batch = <<>>
    /\ pc # "idle" => /\ batch # <<>> /\ batch = drain.batch0
                      /\ ~drain.done

C28_Witness ==
    /\ pc = "storing"
    /\ Len(batch) >= 2
    /\ drain.arrived >= 1
    /\ message_queue # <<>>

\* C29: each captured item leads to at most one call of
\* db.insert_feedback_record, and an item that has been stored is not in
\* the queue.
C29_AtMostOnce ==
    /\ \A i, j \in 1..Len(db_calls) :
          i # j => db_calls[i].rec.message_id # db_calls[j].rec.message_id
    /\ \A i \in 1..Len(db_calls) :
          db_calls[i].ok =>
              db_calls[i].rec.message_id \notin Range(Ids(message_queue))

\* An item re-queued by the rate-limit handler has been stored by a later
\* drain, during which a newer message was queued.
C29_Witness ==
    /\ pc = "storing"
    /\ drain.retry0 >= 1
    /\ Len(db_calls) = 1 /\ db_calls[1].ok
    /\ \E i \in 1..Len(batch) : batch[i].message_id = db_calls[1].rec.message_id
    /\ message_queue # <<>>

\* The batch items a drain that has ended put back in the queue.
C30_Requeued ==
    CASE drain.exc = "RateLimitError" /\ retry_count > drain.retry0 ->
            drain.batch0
      [] drain.exc = "APIError" -> Take(drain.batch0, ApiErrorRequeue)
      [] OTHER -> <<>>

C31_DueTime == SummaryHour * HourLen

\* The first instant after the start at which the wall clock of the zone
\* shows the summary hour.
C31_NextOccurrence ==
    LET tm == sched.timer
        due == {t \in (tm.start + 1)..(tm.start + 2 * DayLen) :
                   WallClock(tm, t) % DayLen = C31_DueTime}
    IN  CHOOSE t \in due : \A u \in due : t <= u

\* C31: the wait computed at startup is strictly positive and at most a
\* day, a start exactly at the summary hour waits a full day, the first
\* firing is at the next occurrence of the summary hour in the configured
\* zone, and every later firing is a day after the one before.
C31_FirstFiringAtSummaryHour ==
    LET tm == sched.timer
    IN  /\ tm.pc # "created" =>
              /\ tm.wait_seconds > 0 /\ tm.wait_seconds <= DayLen
              /\ WallClock(tm, tm.start) % DayLen = C31_DueTime =>
                    tm.wait_seconds = DayLen
        /\ tm.fired # <<>> => tm.fired[1] = C31_NextOccurrence
        /\ \A k \in 1..(Len(tm.fired) - 1) :
              tm.fired[k + 1] = tm.fired[k] + DayLen

\* C32: a handler that starts its fetch takes last_run as the lower bound of
\* its window when there is one and the current time less the lookback
\* otherwise; last_run changes only in the step in which a fetch ends, of
\* the timer or of /summary, with or without failed channels, and is then
\* the time at which the fetch ended.
C32_WindowFromLastRun ==
    [][ LET started == {s \in Slots : /\ sched.runs[s].pc = "idle"
                                      /\ sched'.runs[s].pc = "fetching"}
            ended == {s \in Slots : /\ sched.runs[s].pc = "fetching"
                                    /\ sched'.runs[s].pc = "idle"}
        IN  /\ \A s \in started :
                  sched'.runs[s].cutoff =
                      IF sched.last_run # NoTime THEN sched.last_run
                      ELSE sched.now - Lookback
            /\ ended # {} => sched'.last_run = sched.now
            /\ ended = {} => sched'.last_run = sched.last_run ]_vars

C32_Witness ==
    /\ Len(sched.sent) = 2
    /\ sched.sent[1].by = "daily" /\ sched.sent[2].by = "cmd"
    /\ sched.sent[2].n0 = 1
    /\ sched.sent[2].at > sched.sent[1].at
    /\ sched.lastbad # {}
    /\ sched.last_run = sched.sent[2].at

\* C33: the queue is ordered by capture, oldest at the front: no item
\* precedes an item that was captured before it.
C33_QueueInCaptureOrder ==
    \A i, j \in 1..Len(message_queue) :
        i < j => message_queue[i].message_id < message_queue[j].message_id

C33_Witness ==
    /\ drain.done /\ drain.exc = "APIError"
    /\ Len(drain.batch0) = 3
    /\ Len(drain.qpre) = 1
    /\ Ids(message_queue) = <<1, 2, 4>>

\* The step is a firing of the timer that returns early.
C34_Skips == sched'.nskips = sched.nskips + 1

\* The step starts the first fetch since a firing returned early.
C34_NextStarts(s) ==
    /\ sched.skipped.any /\ ~sched.skipped.started
    /\ sched.runs[s].pc = "idle" /\ sched'.runs[s].pc = "fetching"

\* A firing that returns early fetches nothing, calls no model, sends
\* nothing and leaves last_run and the destination as they are.
C34_NothingDone ==
    C34_Skips =>
        /\ sched'.last_run = sched.last_run
        /\ sched'.sent = sched.sent
        /\ sched'.collected = sched.collected
        /\ sched'.history = sched.history
        /\ sched'.runs = sched.runs
        /\ sched'.nruns = sched.nruns
        /\ sched'.summary_channel_id = sched.summary_channel_id

\* C34 as stated: a firing of the timer that finds no destination or cannot
\* resolve it does nothing, and the messages of its window are in the
\* window of the next digest.
C34_SkippedWindowKept ==
    [][ /\ C34_NothingDone
        /\ \A s \in Slots :
              C34_NextStarts(s) =>
                  \A id \in sched.skipped.ids :
                      sched.history[id].created_at > sched'.runs[s].cutoff
      ]_vars

\* C34, amended: a firing of the timer that cannot resolve the destination
\* does nothing; the messages of its window are in the window of the next
\* digest when there was a last_run at the firing and no fetch has ended
\* since.
C34_SkippedWindowKeptGivenLastRun ==
    [][ /\ C34_NothingDone
        /\ \A s \in Slots :
              ( /\ C34_NextStarts(s)
                /\ sched.skipped.last_run # NoTime
                /\ sched.last_run = sched.skipped.last_run ) =>
                  \A id \in sched.skipped.ids :
                      sched.history[id].created_at > sched'.runs[s].cutoff
      ]_vars

C34_Witness ==
    /\ sched.skipped.any /\ sched.skipped.started
    /\ sched.skipped.last_run # NoTime
    /\ sched.skipped.ids # {}
    /\ sched.last_run = sched.skipped.last_run
    /\ sched.runs["daily"].pc = "fetching"
    /\ sched.runs["daily"].cutoff = sched.skipped.last_run
    /\ Len(sched.sent) = 1

=============================================================================
